---- MODULE Spec2Model ----
(***************************************************************************)
(* Model of src/server.py: the MCP server "rosreestr".                     *)
(*                                                                         *)
(* The state is the configuration read at import time (API_TOKEN), the     *)
(* position of the one tool call in progress (pc), the locals of call_tool *)
(* and get_area, and the sequence of outbound calls made so far (trace).   *)
(* The three collaborators (ipapi.co, the remote cadastral API and the     *)
(* rosreestr2coord library) are the environment: every outcome they can    *)
(* produce is drawn from a small set at the step that calls them.          *)
(***************************************************************************)
EXTENDS Integers, Sequences, FiniteSets, TLC

VARIABLES
    API_TOKEN,          \* server.py:19, read once, never assigned again
    pc,                 \* position of the call in progress
    name,               \* call_tool's `name` ("" when idle)
    arguments,          \* call_tool's `arguments`
    cadastral_numbers,  \* the identifiers get_area is called for, in order
    area_type,          \* call_tool's local `area_type`
    results,            \* call_tool's local `results` (line 188)
    frame,              \* the get_area call in progress or last returned
    geo,                \* outcome of the last request to RU_IP_CHECK_URL
    trace,              \* outbound calls and strategy invocations, in order
    routed,             \* history: what each get_area call returned
    response            \* payload of the TextContent returned by call_tool

vars == <<API_TOKEN, pc, name, arguments, cadastral_numbers, area_type,
          results, frame, geo, trace, routed, response>>

(***************************************************************************)
(* Bounds of the model.                                                    *)
(***************************************************************************)
MaxBatch == 2

Identifiers == {"A", "B"}

(***************************************************************************)
(* JSON / Python values.  Every value is a tagged record so that values of *)
(* different Python types can be compared.                                 *)
(***************************************************************************)
JNull == [t |-> "null"]
JBool(b) == [t |-> "bool", b |-> b]
JNum(n) == [t |-> "num", n |-> n]
JStr(s) == [t |-> "str", s |-> s]
JArr(a) == [t |-> "array", a |-> a]
JObj(o) == [t |-> "object", o |-> o]

\* No value yet (a local that has not been assigned).
Unset == [t |-> "unset"]

\* Python truth value of a JSON value.
Truthy(v) ==
    CASE v.t = "null" -> FALSE
      [] v.t = "bool" -> v.b
      [] v.t = "num" -> v.n # 0
      [] v.t = "str" -> v.s # ""
      [] v.t = "array" -> v.a # <<>>
      [] v.t = "object" -> DOMAIN v.o # {}
      [] OTHER -> FALSE

IsDict(v) == v.t = "object"

HasKey(d, k) == IsDict(d) /\ k \in DOMAIN d.o

\* dict.get(k): None when the key is absent.
DictGet(d, k) == IF k \in DOMAIN d.o THEN d.o[k] ELSE JNull

\* dict.get(k, default).
DictGetDefault(d, k, default) == IF k \in DOMAIN d.o THEN d.o[k] ELSE default

ErrorDict(msg) == JObj([error |-> JStr(msg)])

\* str.upper() on the strings the geolocation service is modelled to return.
upper_identity(s) == s

upper(s) ==
    CASE s = "ru" -> "RU"
      [] s = "Ru" -> "RU"
      [] s = "us" -> "US"
      [] OTHER -> s

(***************************************************************************)
(* The environment: what each collaborator can answer.                     *)
(***************************************************************************)
CountryCodes == {"RU", "ru", "US"}

GeoBody(cc) == JObj([ip |-> JStr("203.0.113.7"), country_code |-> JStr(cc)])

\* JSON bodies ipapi.co can answer with: a location, a rate-limit notice
\* without country_code, a null country_code, a body that is no object.
GeoBodies ==
    {GeoBody(cc) : cc \in CountryCodes}
    \cup {JObj([error |-> JBool(TRUE), reason |-> JStr("RateLimited")]),
          JObj([ip |-> JStr("203.0.113.7"), country_code |-> JNull]),
          JArr(<<>>)}

\* requests.get raises / response.json() raises / a JSON body is returned.
GeoOutcomes ==
    {[kind |-> "exception", msg |-> "ConnectTimeout"],
     [kind |-> "malformed", msg |-> "Expecting value"]}
    \cup {[kind |-> "json", body |-> b] : b \in GeoBodies}

\* No request to RU_IP_CHECK_URL has been made in this call.
GeoNone == [kind |-> "none"]

Feature(cn) == JObj([type |-> JStr("Feature"), id |-> JStr(cn)])

\* JSON bodies the remote cadastral API can answer with (status 2xx).
ApiBodies(cn) ==
    {JObj([success |-> JBool(TRUE), geojson |-> Feature(cn)]),
     JObj([success |-> JBool(TRUE), geojson |-> JNull]),
     JObj([success |-> JBool(TRUE),
           data |-> JObj([features |-> JArr(<<Feature(cn)>>)])]),
     JObj([success |-> JStr("ok"), geojson |-> Feature(cn)]),
     JObj([success |-> JBool(FALSE), geojson |-> Feature(cn)]),
     JObj([error |-> JStr("not found")]),
     JArr(<<>>)}

\* requests.get raises / raise_for_status raises / response.json() raises
\* (requests.exceptions.JSONDecodeError, a RequestException) / a body.
ApiOutcomes(cn) ==
    {[kind |-> "exception", msg |-> "ReadTimeout"],
     [kind |-> "http_error", msg |-> "404 Client Error"],
     [kind |-> "malformed", msg |-> "Expecting value"]}
    \cup {[kind |-> "json", body |-> b] : b \in ApiBodies(cn)}

\* The import fails / Area(...) raises / area.feature is None or a feature.
DirectOutcomes(cn) ==
    {[kind |-> "import_error"],
     [kind |-> "exception", msg |-> "lib timeout"],
     [kind |-> "area", feature |-> JNull],
     [kind |-> "area", feature |-> Feature(cn)]}

(***************************************************************************)
(* is_russian_ip (lines 25-33).                                            *)
(***************************************************************************)
\* data.get('country_code', '')
CountryCode(data) == DictGetDefault(data, "country_code", JStr(""))

\* data.get(...).upper() raises AttributeError: data is no dict, or the
\* country code is no string.
CountryCodeRaises(data) == ~IsDict(data) \/ CountryCode(data).t # "str"

\* The try block of the lookup raises.
GeoRaises(g) == g.kind # "json" \/ CountryCodeRaises(g.body)

is_russian_ip_failclosed(g) ==
    IF GeoRaises(g) THEN TRUE ELSE upper(CountryCode(g.body).s) = "RU"

is_russian_ip(g) ==
    IF GeoRaises(g) THEN FALSE ELSE upper(CountryCode(g.body).s) = "RU"

(***************************************************************************)
(* get_area_via_api (lines 36-53).                                         *)
(***************************************************************************)
ApiTokenSet_always == TRUE

\* `if not API_TOKEN` fails.
ApiTokenSet == API_TOKEN # ""

get_area_via_api(cn, at, out) ==
    IF ~ApiTokenSet
    THEN ErrorDict("ROSREESTR_API_TOKEN not configured")
    ELSE IF out.kind = "json" THEN out.body ELSE ErrorDict(out.msg)

\* What the call adds to the trace: the invocation, and the HTTP request
\* when the token check passes.
ViaApiEvents(cn, at) ==
    <<[ev |-> "via_api", cn |-> cn, area_type |-> at]>>
    \o (IF ApiTokenSet
        THEN <<[ev |-> "api_http", cn |-> cn, area_type |-> at]>>
        ELSE <<>>)

(***************************************************************************)
(* get_area_direct (lines 56-81).                                          *)
(***************************************************************************)
DirectSuccess_geojson(feature) ==
    JObj([success |-> JBool(TRUE), geojson |-> feature])

DirectSuccess(feature) ==
    JObj([success |-> JBool(TRUE),
          data |-> JObj([features |-> JArr(<<feature>>)])])

get_area_direct(cn, at, out) ==
    CASE out.kind = "import_error" -> ErrorDict("rosreestr2coord not installed")
      [] out.kind = "exception" -> ErrorDict(out.msg)
      [] OTHER -> IF Truthy(out.feature)
                  THEN DirectSuccess(out.feature)
                  ELSE ErrorDict("No data found for this cadastral number")

\* The invocation, and the library call unless the import failed.
DirectEvents(cn, at, out) ==
    <<[ev |-> "direct", cn |-> cn, area_type |-> at]>>
    \o (IF out.kind = "import_error"
        THEN <<>>
        ELSE <<[ev |-> "lib", cn |-> cn, area_type |-> at]>>)

(***************************************************************************)
(* get_area (lines 84-94).                                                 *)
(***************************************************************************)
CallsGeo_always(force_api) == TRUE

\* `force_api or not is_russian_ip()`: the right operand is evaluated only
\* when force_api is false.
CallsGeo(force_api) == ~force_api

use_api_inverted(force_api, russian) == force_api \/ russian

use_api(force_api, russian) == force_api \/ ~russian

NoFrame ==
    [cn |-> "", area_type |-> 0, force_api |-> FALSE, invoked |-> <<>>,
     result |-> Unset]

NewFrame(cn, at, force_api) ==
    [cn |-> cn, area_type |-> at, force_api |-> force_api, invoked |-> <<>>,
     result |-> Unset]

(***************************************************************************)
(* call_tool (lines 157-239): helpers.                                     *)
(***************************************************************************)
DefaultAreaType == 1

AreaTypes == {DefaultAreaType, 2}

NoArgs == [k \in {} |-> JNull]

\* arguments.get(k, default)
ArgGet(args, k, default) == IF k \in DOMAIN args THEN args[k] ELSE default

StrFalsy_never(s) == FALSE

\* `not cadastral_number`
StrFalsy(s) == s = ""

\* `not cadastral_numbers`
ListFalsy(l) == l = <<>>

AppendResult_front(rs, r) == <<r>> \o rs

\* results.append(response)
AppendResult(rs, r) == Append(rs, r)

ContributesGeometry_any(r) == Truthy(DictGet(r, "geojson"))

\* `r.get('success') and r.get('geojson')` (line 195)
ContributesGeometry(r) ==
    Truthy(DictGet(r, "success")) /\ Truthy(DictGet(r, "geojson"))

\* lines 193-196
Features(rs) ==
    LET sel == SelectSeq(rs, ContributesGeometry)
    IN  [i \in 1..Len(sel) |-> DictGet(sel[i], "geojson")]

\* sum(1 for r in results if r.get('success')) (line 200)
SuccessCount(rs) ==
    Len(SelectSeq(rs, LAMBDA r : Truthy(DictGet(r, "success"))))

\* r.get raises AttributeError on a result that is no dict (line 195).
AggregateRaises(rs) == \E i \in 1..Len(rs) : ~IsDict(rs[i])

\* lines 198-206
BatchResult(cns, rs) ==
    JObj([total |-> JNum(Len(cns)),
          success_count |-> JNum(SuccessCount(rs)),
          results |-> JArr(rs),
          geojson |-> JObj([type |-> JStr("FeatureCollection"),
                            features |-> JArr(Features(rs))])])

\* lines 214-228
check_ip_location(g) ==
    IF g.kind # "json"
    THEN ErrorDict(g.msg)
    ELSE IF CountryCodeRaises(g.body)
    THEN ErrorDict("object has no attribute")
    ELSE LET data == g.body
             is_ru == upper(CountryCode(data).s) = "RU"
         IN  JObj([ip |-> DictGet(data, "ip"),
                   country |-> DictGet(data, "country_name"),
                   country_code |-> DictGet(data, "country_code"),
                   city |-> DictGet(data, "city"),
                   is_russian |-> JBool(is_ru),
                   will_use_api |-> JBool(~is_ru)])

\* Arguments a client can send to get_cadastral_coordinates.
SingleArguments ==
    {NoArgs}
    \cup {[cadastral_number |-> c] : c \in {""} \cup Identifiers}
    \cup {[cadastral_number |-> c, area_type |-> a] :
              c \in {""} \cup Identifiers, a \in AreaTypes}

BatchLists == UNION {[1..n -> Identifiers] : n \in 0..MaxBatch}

\* Arguments a client can send to batch_get_cadastral_coordinates.
BatchArguments ==
    {NoArgs}
    \cup {[cadastral_numbers |-> l] : l \in BatchLists}
    \cup {[cadastral_numbers |-> l, area_type |-> a] :
              l \in BatchLists, a \in AreaTypes}

(***************************************************************************)
(* Initial state: the module has been imported, no call is in progress.    *)
(***************************************************************************)
Init ==
    /\ API_TOKEN \in {"", "secret"}
    /\ pc = "idle"
    /\ name = ""
    /\ arguments = NoArgs
    /\ cadastral_numbers = <<>>
    /\ area_type = DefaultAreaType
    /\ results = <<>>
    /\ frame = NoFrame
    /\ geo = GeoNone
    /\ trace = <<>>
    /\ routed = <<>>
    /\ response = Unset

(***************************************************************************)
(* Entry points.                                                           *)
(***************************************************************************)
\* call_tool("get_cadastral_coordinates", args): lines 161-171
CallGetCadastralCoordinates ==
    /\ pc = "idle"
    /\ \E args \in SingleArguments :
         LET cn == ArgGet(args, "cadastral_number", "")
             at == ArgGet(args, "area_type", DefaultAreaType)
         IN  /\ name' = "get_cadastral_coordinates"
             /\ arguments' = args
             /\ area_type' = at
             /\ IF StrFalsy(cn)
                THEN /\ response' = ErrorDict("cadastral_number is required")
                     /\ pc' = "done"
                     /\ UNCHANGED <<cadastral_numbers, frame>>
                ELSE /\ cadastral_numbers' = <<cn>>
                     /\ frame' = NewFrame(cn, at, FALSE)
                     /\ pc' = "get_area"
                     /\ UNCHANGED response
    /\ UNCHANGED <<API_TOKEN, results, geo, trace, routed>>

\* call_tool("batch_get_cadastral_coordinates", args): lines 178-190
CallBatchGetCadastralCoordinates ==
    /\ pc = "idle"
    /\ \E args \in BatchArguments :
         LET cns == ArgGet(args, "cadastral_numbers", <<>>)
             at == ArgGet(args, "area_type", DefaultAreaType)
         IN  /\ name' = "batch_get_cadastral_coordinates"
             /\ arguments' = args
             /\ area_type' = at
             /\ IF ListFalsy(cns)
                THEN /\ response' =
                            ErrorDict("cadastral_numbers array is required")
                     /\ pc' = "done"
                     /\ UNCHANGED <<cadastral_numbers, frame>>
                ELSE /\ cadastral_numbers' = cns
                     /\ frame' = NewFrame(cns[1], at, FALSE)
                     /\ pc' = "get_area"
                     /\ UNCHANGED response
    /\ UNCHANGED <<API_TOKEN, results, geo, trace, routed>>

\* call_tool("check_ip_location", {}): line 213
CallCheckIpLocation ==
    /\ pc = "idle"
    /\ name' = "check_ip_location"
    /\ pc' = "check_ip"
    /\ UNCHANGED <<API_TOKEN, arguments, cadastral_numbers, area_type,
                   results, frame, geo, trace, routed, response>>

\* call_tool with a name that is none of the three tools: lines 235-239
CallUnknownTool ==
    /\ pc = "idle"
    /\ name' = "list_everything"
    /\ response' = ErrorDict("Unknown tool: list_everything")
    /\ pc' = "done"
    /\ UNCHANGED <<API_TOKEN, arguments, cadastral_numbers, area_type,
                   results, frame, geo, trace, routed>>

\* get_area(cn, at, force_api) called as a function, with either value of
\* the force_api parameter of its signature (line 84).
CallGetArea ==
    /\ pc = "idle"
    /\ \E cn \in Identifiers, at \in AreaTypes, force_api \in BOOLEAN :
         /\ name' = "get_area"
         /\ cadastral_numbers' = <<cn>>
         /\ area_type' = at
         /\ frame' = NewFrame(cn, at, force_api)
    /\ pc' = "get_area"
    /\ UNCHANGED <<API_TOKEN, arguments, results, geo, trace, routed,
                   response>>

(***************************************************************************)
(* get_area.                                                               *)
(***************************************************************************)
\* line 89 and the branch of line 91
GetAreaDecide ==
    /\ pc = "get_area"
    /\ \/ /\ CallsGeo(frame.force_api)
          /\ \E g \in GeoOutcomes :
               /\ geo' = g
               /\ pc' = IF use_api(frame.force_api, is_russian_ip(g))
                        THEN "via_api" ELSE "direct"
          /\ trace' = Append(trace, [ev |-> "geo"])
       \/ /\ ~CallsGeo(frame.force_api)
          /\ geo' = GeoNone
          /\ pc' = IF use_api(frame.force_api, FALSE)
                   THEN "via_api" ELSE "direct"
          /\ UNCHANGED trace
    /\ UNCHANGED <<API_TOKEN, name, arguments, cadastral_numbers, area_type,
                   results, frame, routed, response>>

\* line 92: get_area_via_api runs to its return
GetAreaViaApi ==
    /\ pc = "via_api"
    /\ \E out \in (IF ApiTokenSet THEN ApiOutcomes(frame.cn)
                                  ELSE {[kind |-> "none"]}) :
         LET r == get_area_via_api(frame.cn, frame.area_type, out)
         IN  /\ frame' = [frame EXCEPT !.invoked = Append(@, "via_api"),
                                       !.result = r]
             /\ routed' = Append(routed, [cn |-> frame.cn,
                                          strategy |-> "via_api",
                                          result |-> r])
    /\ trace' = trace \o ViaApiEvents(frame.cn, frame.area_type)
    /\ pc' = "ret_area"
    /\ UNCHANGED <<API_TOKEN, name, arguments, cadastral_numbers, area_type,
                   results, geo, response>>

\* line 94: get_area_direct runs to its return
GetAreaDirect ==
    /\ pc = "direct"
    /\ \E out \in DirectOutcomes(frame.cn) :
         LET r == get_area_direct(frame.cn, frame.area_type, out)
         IN  /\ frame' = [frame EXCEPT !.invoked = Append(@, "direct"),
                                       !.result = r]
             /\ routed' = Append(routed, [cn |-> frame.cn,
                                          strategy |-> "direct",
                                          result |-> r])
             /\ trace' = trace \o DirectEvents(frame.cn, frame.area_type, out)
    /\ pc' = "ret_area"
    /\ UNCHANGED <<API_TOKEN, name, arguments, cadastral_numbers, area_type,
                   results, geo, response>>

\* get_area returns to its caller: lines 171-176, or lines 190-191
GetAreaReturn ==
    /\ pc = "ret_area"
    /\ IF name = "batch_get_cadastral_coordinates"
       THEN /\ results' = AppendResult(results, frame.result)
            /\ pc' = "loop"
            /\ UNCHANGED response
       ELSE /\ response' = frame.result
            /\ pc' = "done"
            /\ UNCHANGED results
    /\ UNCHANGED <<API_TOKEN, name, arguments, cadastral_numbers, area_type,
                   frame, geo, trace, routed>>

(***************************************************************************)
(* The batch loop and the aggregation.                                     *)
(***************************************************************************)
\* line 189: the next identifier
BatchNext ==
    /\ pc = "loop"
    /\ Len(results) < Len(cadastral_numbers)
    /\ frame' = NewFrame(cadastral_numbers[Len(results) + 1], area_type, FALSE)
    /\ geo' = GeoNone
    /\ pc' = "get_area"
    /\ UNCHANGED <<API_TOKEN, name, arguments, cadastral_numbers, area_type,
                   results, trace, routed, response>>

\* lines 193-211: the loop is over
BatchAggregate ==
    /\ pc = "loop"
    /\ Len(results) >= Len(cadastral_numbers)
    /\ IF AggregateRaises(results)
       THEN /\ pc' = "raised"
            /\ UNCHANGED response
       ELSE /\ response' = BatchResult(cadastral_numbers, results)
            /\ pc' = "done"
    /\ frame' = NoFrame
    /\ geo' = GeoNone
    /\ UNCHANGED <<API_TOKEN, name, arguments, cadastral_numbers, area_type,
                   results, trace, routed>>

(***************************************************************************)
(* check_ip_location: lines 213-233.                                       *)
(***************************************************************************)
CheckIpLocation ==
    /\ pc = "check_ip"
    /\ \E g \in GeoOutcomes :
         /\ geo' = g
         /\ response' = check_ip_location(g)
    /\ trace' = Append(trace, [ev |-> "geo"])
    /\ pc' = "done"
    /\ UNCHANGED <<API_TOKEN, name, arguments, cadastral_numbers, area_type,
                   results, frame, routed>>

\* The call is over; the server waits for the next one.  Nothing but the
\* configuration survives a call.
NextRequest ==
    /\ pc \in {"done", "raised"}
    /\ pc' = "idle"
    /\ name' = ""
    /\ arguments' = NoArgs
    /\ cadastral_numbers' = <<>>
    /\ area_type' = DefaultAreaType
    /\ results' = <<>>
    /\ frame' = NoFrame
    /\ geo' = GeoNone
    /\ trace' = <<>>
    /\ routed' = <<>>
    /\ response' = Unset
    /\ UNCHANGED API_TOKEN

Next ==
    \/ CallGetCadastralCoordinates
    \/ CallBatchGetCadastralCoordinates
    \/ CallCheckIpLocation
    \/ CallUnknownTool
    \/ CallGetArea
    \/ GetAreaDecide
    \/ GetAreaViaApi
    \/ GetAreaDirect
    \/ GetAreaReturn
    \/ BatchNext
    \/ BatchAggregate
    \/ CheckIpLocation
    \/ NextRequest

Spec == Init /\ [][Next]_vars

(***************************************************************************)
(* Vocabulary of the properties.  These are stated on the state alone and  *)
(* use none of the operators above that model a decision of the code.      *)
(***************************************************************************)
RuSpellings == {"RU", "Ru", "rU", "ru"}

\* The request to the geolocation service was answered with a JSON object
\* whose country_code is a string.
GeoHasCountry ==
    /\ geo.kind = "json"
    /\ geo.body.t = "object"
    /\ "country_code" \in DOMAIN geo.body.o
    /\ geo.body.o.country_code.t = "str"

\* ... and that country code is RU in some letter case.
GeoReportsRU == GeoHasCountry /\ geo.body.o.country_code.s \in RuSpellings

\* The geolocation lookup completed: a JSON object came back whose
\* country_code is a string or is missing.
GeoLookupOk ==
    /\ geo.kind = "json"
    /\ geo.body.t = "object"
    /\ ("country_code" \in DOMAIN geo.body.o
            => geo.body.o.country_code.t = "str")

NotConfigured == JObj([error |-> JStr("ROSREESTR_API_TOKEN not configured")])

IsBatch == name = "batch_get_cadastral_coordinates"

IsSingle == name = "get_cadastral_coordinates"

\* The batch call has returned its payload for a non-empty list.
BatchDone == IsBatch /\ pc = "done" /\ cadastral_numbers # <<>>

\* The requests to the geolocation service and the strategy invocations.
Calls == SelectSeq(trace, LAMBDA e : e.ev \in {"geo", "via_api", "direct"})

\* The i-th smallest element of a set of indices.
Nth(S, k) == CHOOSE i \in S : Cardinality({j \in S : j <= i}) = k

(***************************************************************************)
(* C1: every get_area call invokes exactly one strategy and returns its    *)
(* result unchanged: get_area_via_api when force_api is true, or the       *)
(* geolocation lookup fails in any way, or it reports a country code that  *)
(* is not RU (compared case-insensitively); get_area_direct otherwise.  An *)
(* error from the selected strategy is returned as it is and the other     *)
(* strategy is not invoked.                                                *)
(***************************************************************************)
C1_Routing ==
    LET expected == IF frame.force_api \/ ~GeoReportsRU
                    THEN "via_api" ELSE "direct"
    IN  /\ pc \in {"via_api", "direct"} => pc = expected /\ frame.invoked = <<>>
        /\ (pc = "ret_area" \/ (pc \in {"loop", "done"} /\ frame # NoFrame)) =>
             /\ frame.invoked = <<expected>>
             /\ routed # <<>>
             /\ routed[Len(routed)] = [cn |-> frame.cn, strategy |-> expected,
                                       result |-> frame.result]
             /\ pc = "done" => response = frame.result
             /\ pc = "loop" => results[Len(results)] = frame.result

\* The lookup failed, the remote strategy was chosen, it returned an error,
\* and that error is the response; the direct strategy was not tried.
C1_Witness ==
    /\ pc = "done"
    /\ name = "get_area"
    /\ ~frame.force_api
    /\ geo.kind = "exception"
    /\ frame.invoked = <<"via_api">>
    /\ HasKey(response, "error")
    /\ response # NotConfigured

(***************************************************************************)
(* C2: for a non-empty list of N identifiers the batch response has        *)
(* total = N and results holds exactly N entries, entry i being what       *)
(* get_area returned for identifier i of the input (order and duplicates   *)
(* kept), whatever mix of successes and errors was returned.               *)
(***************************************************************************)
C2_BatchOrder ==
    /\ (IsBatch /\ pc \in {"loop", "done", "raised"}
            /\ cadastral_numbers # <<>>) =>
         /\ Len(results) = Len(routed)
         /\ \A i \in 1..Len(results) :
               /\ i <= Len(routed)
               /\ results[i] = routed[i].result
               /\ routed[i].cn = arguments.cadastral_numbers[i]
    /\ BatchDone =>
         /\ response.o.total = JNum(Len(arguments.cadastral_numbers))
         /\ response.o.results.t = "array"
         /\ Len(response.o.results.a) = Len(arguments.cadastral_numbers)
         /\ \A i \in 1..Len(arguments.cadastral_numbers) :
               response.o.results.a[i] = routed[i].result

\* A batch with a duplicate identifier: the first fetch succeeded and the
\* second returned an error.
C2_Witness ==
    /\ BatchDone
    /\ arguments.cadastral_numbers = <<"A", "A">>
    /\ HasKey(response.o.results.a[1], "success")
    /\ HasKey(response.o.results.a[2], "error")

(***************************************************************************)
(* C3 as stated: success_count is the number of results whose success is   *)
(* true; the feature count is at most success_count, with equality exactly *)
(* when every successful result has a geojson field; a result contributes  *)
(* iff its success is true and a geojson field is present.                 *)
(***************************************************************************)
C3_Original ==
    BatchDone =>
      LET rs == response.o.results.a
          fs == response.o.geojson.o.features.a
          sc == response.o.success_count.n
          Succ == {i \in 1..Len(rs) : /\ HasKey(rs[i], "success")
                                      /\ rs[i].o.success = JBool(TRUE)}
          Contrib == {i \in Succ : HasKey(rs[i], "geojson")}
      IN  /\ sc = Cardinality(Succ)
          /\ Len(fs) <= sc
          /\ (Len(fs) = sc) <=> (Contrib = Succ)
          /\ Len(fs) = Cardinality(Contrib)
          /\ \A k \in 1..Len(fs) :
                k <= Cardinality(Contrib) /\ fs[k] = rs[Nth(Contrib, k)].o.geojson

(***************************************************************************)
(* C3 as amended: success_count is the number of results whose success is  *)
(* truthy; the feature count is at most success_count, with equality       *)
(* exactly when every such result has a truthy (present, not null, not     *)
(* empty) geojson; a result contributes its geojson, in order, iff its     *)
(* success is truthy and its geojson is truthy.                            *)
(***************************************************************************)
C3_Amended ==
    BatchDone =>
      LET rs == response.o.results.a
          fs == response.o.geojson.o.features.a
          sc == response.o.success_count.n
          Succ == {i \in 1..Len(rs) : Truthy(DictGet(rs[i], "success"))}
          Contrib == {i \in Succ : Truthy(DictGet(rs[i], "geojson"))}
      IN  /\ sc = Cardinality(Succ)
          /\ Len(fs) <= sc
          /\ (Len(fs) = sc) <=> (Contrib = Succ)
          /\ Len(fs) = Cardinality(Contrib)
          /\ \A k \in 1..Len(fs) :
                k <= Cardinality(Contrib) /\ fs[k] = rs[Nth(Contrib, k)].o.geojson
          /\ response.o.geojson.o.type = JStr("FeatureCollection")

\* Two successful results, one with a geometry and one whose geojson field
\* is present but null: success_count is 2 and one feature is collected.
C3_Witness ==
    /\ BatchDone
    /\ Len(results) = 2
    /\ results[1] = JObj([success |-> JBool(TRUE), geojson |-> Feature("A")])
    /\ results[2] = JObj([success |-> JBool(TRUE), geojson |-> JNull])
    /\ response.o.success_count = JNum(2)
    /\ Len(response.o.geojson.o.features.a) = 1

(***************************************************************************)
(* C4: every call of call_tool returns a payload and never raises,         *)
(* whatever the collaborators return or throw.                             *)
(***************************************************************************)
C4_NeverRaises ==
    /\ pc # "raised"
    /\ pc = "done" => response # Unset

(***************************************************************************)
(* C5: with API_TOKEN empty, every call of get_area_via_api returns        *)
(* exactly {'error': 'ROSREESTR_API_TOKEN not configured'} and no request  *)
(* is sent to the remote cadastral API.                                    *)
(***************************************************************************)
C5_NoTokenNoRequest ==
    API_TOKEN = "" =>
      /\ \A i \in 1..Len(trace) : trace[i].ev # "api_http"
      /\ \A i \in 1..Len(routed) :
            routed[i].strategy = "via_api" => routed[i].result = NotConfigured
      /\ pc = "ret_area" /\ frame.invoked = <<"via_api">> =>
            frame.result = NotConfigured

\* get_area_via_api has been called without a token, for a non-default
\* area type.
C5_Witness ==
    /\ API_TOKEN = ""
    /\ pc = "ret_area"
    /\ frame.invoked = <<"via_api">>
    /\ frame.area_type = 2
    /\ trace[Len(trace)].ev = "via_api"

(***************************************************************************)
(* C6 as stated: with API_TOKEN empty, get_cadastral_coordinates with a    *)
(* non-empty identifier and the default area type returns                  *)
(* {"error": "ROSREESTR_API_TOKEN not configured"} for every outcome of    *)
(* the geolocation lookup.                                                 *)
(***************************************************************************)
C6_Original ==
    (/\ pc = "done"
     /\ IsSingle
     /\ API_TOKEN = ""
     /\ "cadastral_number" \in DOMAIN arguments
     /\ arguments.cadastral_number # ""
     /\ "area_type" \notin DOMAIN arguments) => response = NotConfigured

(***************************************************************************)
(* C6 as amended: ... returns that payload for every outcome of the        *)
(* geolocation lookup except a completed lookup that reports country code  *)
(* RU (in any letter case); then the direct strategy runs and its result   *)
(* is returned.                                                            *)
(***************************************************************************)
C6_Amended ==
    (/\ pc = "done"
     /\ IsSingle
     /\ API_TOKEN = ""
     /\ "cadastral_number" \in DOMAIN arguments
     /\ arguments.cadastral_number # ""
     /\ "area_type" \notin DOMAIN arguments) =>
        /\ ~GeoReportsRU => response = NotConfigured
        /\ GeoReportsRU => /\ frame.invoked = <<"direct">>
                           /\ response = frame.result
                           /\ response # NotConfigured

\* The scenario of the spec with a caller located outside RU.
C6_Witness ==
    /\ pc = "done"
    /\ IsSingle
    /\ API_TOKEN = ""
    /\ arguments = [cadastral_number |-> "A"]
    /\ GeoHasCountry
    /\ geo.body.o.country_code.s = "US"
    /\ response = NotConfigured

(***************************************************************************)
(* C7: a request rejected by argument validation makes no outbound call:   *)
(* get_cadastral_coordinates with an empty or absent cadastral_number and  *)
(* batch_get_cadastral_coordinates with an empty or absent list return an  *)
(* error payload, and no geolocation lookup, API request or library call   *)
(* has been made.                                                          *)
(***************************************************************************)
C7_RejectedNoOutbound ==
    LET rejected ==
          \/ /\ IsSingle
             /\ ("cadastral_number" \in DOMAIN arguments
                    => arguments.cadastral_number = "")
          \/ /\ IsBatch
             /\ ("cadastral_numbers" \in DOMAIN arguments
                    => arguments.cadastral_numbers = <<>>)
    IN  rejected =>
          /\ pc = "done"
          /\ DOMAIN response.o = {"error"}
          /\ trace = <<>>
          /\ routed = <<>>
          /\ frame = NoFrame

\* get_cadastral_coordinates was called with cadastral_number "" and has
\* returned.
C7_Witness ==
    /\ pc = "done"
    /\ IsSingle
    /\ "cadastral_number" \in DOMAIN arguments
    /\ arguments.cadastral_number = ""
    /\ response = ErrorDict("cadastral_number is required")

(***************************************************************************)
(* C8: when the geolocation lookup completes, check_ip_location returns a  *)
(* LocationInfo whose is_russian is true iff the country code, upper-cased,*)
(* is 'RU', and whose will_use_api is the negation of is_russian; when the *)
(* lookup fails it returns an error payload with neither flag.             *)
(***************************************************************************)
C8_LocationFlags ==
    (pc = "done" /\ name = "check_ip_location") =>
       IF GeoLookupOk
       THEN /\ response.t = "object"
            /\ {"is_russian", "will_use_api"} \subseteq DOMAIN response.o
            /\ response.o.is_russian = JBool(GeoReportsRU)
            /\ response.o.will_use_api = JBool(~GeoReportsRU)
            /\ response.o.country_code = DictGet(geo.body, "country_code")
       ELSE /\ response.t = "object"
            /\ DOMAIN response.o = {"error"}

\* The service answered with the lower-case code "ru".
C8_Witness ==
    /\ pc = "done"
    /\ name = "check_ip_location"
    /\ GeoHasCountry
    /\ geo.body.o.country_code.s = "ru"
    /\ response.o.is_russian = JBool(TRUE)
    /\ response.o.will_use_api = JBool(FALSE)

(***************************************************************************)
(* C9: a get_area call makes exactly one geolocation lookup, before its    *)
(* one fetch, when force_api is false, and none when force_api is true; a  *)
(* batch of N identifiers makes N lookups and N fetches, alternating, in   *)
(* input order.                                                            *)
(***************************************************************************)
C9_LookupPerCall ==
    /\ (pc = "done" /\ name = "get_area" /\ frame.force_api) =>
          /\ Len(Calls) = 1
          /\ Calls[1].ev = "via_api"
          /\ Calls[1].cn = frame.cn
    /\ (pc = "done" /\ name = "get_area" /\ ~frame.force_api) =>
          /\ Len(Calls) = 2
          /\ Calls[1].ev = "geo"
          /\ Calls[2].ev \in {"via_api", "direct"}
          /\ Calls[2].cn = frame.cn
    /\ (pc \in {"done", "raised"} /\ cadastral_numbers # <<>>
            /\ (IsBatch \/ IsSingle)) =>
          /\ Len(Calls) = 2 * Len(cadastral_numbers)
          /\ \A i \in 1..Len(cadastral_numbers) :
                /\ Calls[2 * i - 1].ev = "geo"
                /\ Calls[2 * i].ev \in {"via_api", "direct"}
                /\ Calls[2 * i].cn = cadastral_numbers[i]
                /\ Calls[2 * i].ev = routed[i].strategy

\* Two identifiers of one batch were routed to different strategies.
C9_Witness ==
    /\ BatchDone
    /\ Len(routed) = 2
    /\ routed[1].strategy = "direct"
    /\ routed[2].strategy = "via_api"

(***************************************************************************)
(* C10: a result of get_area_direct is {success: true, data: {features:    *)
(* [feature]}} or {error: ...}; it has no geojson field, so a batch whose  *)
(* identifiers were all routed to get_area_direct has an empty features    *)
(* list even when success_count equals total.                              *)
(***************************************************************************)
C10_DirectNoGeometry ==
    /\ \A i \in 1..Len(routed) :
          routed[i].strategy = "direct" =>
            LET r == routed[i].result
            IN  /\ r.t = "object"
                /\ "geojson" \notin DOMAIN r.o
                /\ \/ DOMAIN r.o = {"error"}
                   \/ /\ DOMAIN r.o = {"success", "data"}
                      /\ r.o.success = JBool(TRUE)
                      /\ DOMAIN r.o.data.o = {"features"}
                      /\ Len(r.o.data.o.features.a) = 1
    /\ (BatchDone /\ \A i \in 1..Len(routed) : routed[i].strategy = "direct")
          => response.o.geojson.o.features = JArr(<<>>)

\* Both identifiers of a batch were fetched by get_area_direct and both
\* succeeded.
C10_Witness ==
    /\ BatchDone
    /\ Len(routed) = 2
    /\ \A i \in 1..Len(routed) : routed[i].strategy = "direct"
    /\ response.o.total = JNum(2)
    /\ response.o.success_count = JNum(2)
    /\ response.o.geojson.o.features = JArr(<<>>)

====
